---------------------------- MODULE Spec2Model ----------------------------
(***************************************************************************)
(* A model of phonemizer/phonemizer.py: the Phonemizer class wrapping the  *)
(* festival text-to-speech engine.                                         *)
(*                                                                         *)
(* Strings are sequences of one-character strings, so that replace, split, *)
(* join and strip are computed character by character as Python does.      *)
(* A text is tagged with its container type: [isStr |-> TRUE, val |-> s]   *)
(* is a str, [isStr |-> FALSE, val |-> l] a list of str.                   *)
(***************************************************************************)
EXTENDS Naturals, Sequences, FiniteSets

VARIABLES
    separator,        \* self.separator: [word, syllable, phone]
    strip_separator,  \* self.strip_separator
    _log,             \* self._log: "None" or "Logger"
    festival,         \* the engine stub: sanitized line -> answer
    pc,               \* position of the client in phonemize
    text,             \* argument `text` of the current call
    njobs,            \* argument `njobs` of the current call
    chunks,           \* the list self._chunks(text, njobs) handed to joblib
    results,          \* per chunk: Pending or the worker's return/exception
    out,              \* outcome of the last phonemize call
    typed,            \* sanitizer harness: the text being typed in
    sane,             \* sanitizer harness: _preprocess(typed) or None
    tree,             \* flattener harness: the parsed line emitted so far
    flat              \* flattener harness: _postprocess_line(tree) or None

objVars == <<separator, strip_separator, _log>>
callVars == <<festival, pc, text, njobs, chunks, results, out>>
cleanVars == <<typed, sane>>
flatVars == <<tree, flat>>
vars == <<separator, strip_separator, _log, festival, pc, text, njobs,
          chunks, results, out, typed, sane, tree, flat>>

-----------------------------------------------------------------------------
(* Bounds *)

MaxLines == 3       \* lines of a text given to phonemize
MaxJobs == 3        \* njobs ranges over 1..MaxJobs
MaxTyped == 3       \* characters of a text given to _preprocess alone
MaxNodes == 6       \* words + syllables + phones of an emitted line tree

-----------------------------------------------------------------------------
(* Characters and Python's str methods *)

Q == "\""
NL == "\n"
None == [kind |-> "None"]

Max(a, b) == IF a >= b THEN a ELSE b
Min(a, b) == IF a <= b THEN a ELSE b

\* s.replace(old, new) for a one-character `old`
RECURSIVE replace(_, _, _)
replace(s, old, new) ==
    IF s = <<>> THEN <<>>
    ELSE (IF Head(s) = old THEN new ELSE <<Head(s)>>)
         \o replace(Tail(s), old, new)

\* s.split(c) for a one-character separator: always at least one piece
RECURSIVE split(_, _)
split(s, c) ==
    IF s = <<>> THEN << <<>> >>
    ELSE IF Head(s) = c THEN << <<>> >> \o split(Tail(s), c)
    ELSE LET r == split(Tail(s), c)
         IN  << <<Head(s)>> \o Head(r) >> \o Tail(r)

\* sep.join(l)
RECURSIVE join(_, _)
join(sep, l) ==
    IF l = <<>> THEN <<>>
    ELSE IF Len(l) = 1 THEN l[1]
    ELSE l[1] \o sep \o join(sep, Tail(l))

IsSpace(c) == c \in {" ", "\n", "\t"}

RECURSIVE lstrip(_)
lstrip(s) ==
    IF s = <<>> THEN <<>>
    ELSE IF IsSpace(Head(s)) THEN lstrip(Tail(s)) ELSE s

RECURSIVE rstrip(_)
rstrip(s) ==
    IF s = <<>> THEN <<>>
    ELSE IF IsSpace(s[Len(s)]) THEN rstrip(SubSeq(s, 1, Len(s) - 1)) ELSE s

\* s.strip()
strip(s) == rstrip(lstrip(s))

\* itertools.chain(*ll)
RECURSIVE chain(_)
chain(ll) == IF ll = <<>> THEN <<>> ELSE Head(ll) \o chain(Tail(ll))

Str(s) == [isStr |-> TRUE, val |-> s]
List(l) == [isStr |-> FALSE, val |-> l]

_str2list(s) == IF s.isStr THEN split(strip(s.val), NL) ELSE s.val

_list2str(s) == IF ~s.isStr THEN join(<<NL>>, s.val) ELSE s.val

-----------------------------------------------------------------------------
(* The sanitizer *)

_double_quoted(line) == <<Q>> \o line \o <<Q>>

_cleaned_keeps_close_paren(line) ==
    replace(replace(line, Q, <<"'">>), "(", <<>>)

_cleaned(line) ==
    replace(replace(replace(line, Q, <<"'">>), "(", <<>>), ")", <<>>)

_preprocess_keeps_empty_lines(txt) ==
    LET lines == split(txt, NL)
    IN  join(<<NL>>, [i \in 1..Len(lines) |-> _double_quoted(_cleaned(lines[i]))])

_preprocess(txt) ==
    LET lines == SelectSeq(split(txt, NL), LAMBDA l : l # <<>>)
    IN  join(<<NL>>, [i \in 1..Len(lines) |-> _double_quoted(_cleaned(lines[i]))])

-----------------------------------------------------------------------------
(* The tree flattener *)

Ok(v) == [kind |-> "ok", val |-> v]
Raise(e) == [kind |-> "error", val |-> e]

\* A raw output line of festival: an s-expression holding a line tree, the
\* literal '(nil nil nil)', the empty string, or an unbalanced expression.
Sexp(t) == [kind |-> "sexp", tree |-> t]
NilLine == [kind |-> "nil", tree |-> <<>>]
EmptyLine == [kind |-> "empty", tree |-> <<>>]
Unbalanced == [kind |-> "unbalanced", tree |-> <<>>]

\* A parsed line is a sequence of words; word[0] and syll[0] are tags and
\* phone[0][0] is the phone's label.
Phone(label) == << <<label>> >>
Syll(phones) == <<"syl">> \o phones
Word(sylls) == <<"word">> \o sylls

\* lispy.parse(line): raises IndexError on an unbalanced expression
lispy_parse(line) ==
    IF line.kind = "unbalanced" THEN Raise("IndexError") ELSE Ok(line.tree)

Self == [separator |-> separator, strip_separator |-> strip_separator]

_postprocess_syll_keeps_empty(self, syll) ==
    LET sep == self.separator.phone
        ph == Tail(syll)
        o == join(sep, [i \in 1..Len(ph) |-> replace(ph[i][1][1], Q, <<>>)])
    IN  IF self.strip_separator THEN o ELSE o \o sep

_postprocess_syll_never_appends(self, syll) ==
    LET sep == self.separator.phone
        ph == Tail(syll)
        labels == [i \in 1..Len(ph) |-> replace(ph[i][1][1], Q, <<>>)]
    IN  join(sep, SelectSeq(labels, LAMBDA o : o # <<>>))

_postprocess_syll(self, syll) ==
    LET sep == self.separator.phone
        ph == Tail(syll)
        labels == [i \in 1..Len(ph) |-> replace(ph[i][1][1], Q, <<>>)]
        o == join(sep, SelectSeq(labels, LAMBDA o : o # <<>>))
    IN  IF self.strip_separator THEN o ELSE o \o sep

_postprocess_word(self, word) ==
    LET sep == self.separator.syllable
        sy == Tail(word)
        o == join(sep, [i \in 1..Len(sy) |-> _postprocess_syll(self, sy[i])])
    IN  IF self.strip_separator THEN o ELSE o \o sep

_postprocess_line(self, line) ==
    LET sep == self.separator.word
        p == lispy_parse(line)
    IN  IF p.kind = "error" THEN p
        ELSE LET ws == [i \in 1..Len(p.val) |-> _postprocess_word(self, p.val[i])]
                 o == join(sep, SelectSeq(ws, LAMBDA w : w # <<>>))
             IN  Ok(IF self.strip_separator THEN o ELSE o \o sep)

\* The first exception of a list comprehension's evaluations, if any
FirstError(rs) ==
    LET bad == {i \in 1..Len(rs) : rs[i].kind = "error"}
    IN  rs[CHOOSE i \in bad : \A j \in bad : i <= j]

_postprocess(self, rawlines) ==
    LET kept == SelectSeq(rawlines, LAMBDA l : l.kind \notin {"empty", "nil"})
        rs == [i \in 1..Len(kept) |-> _postprocess_line(self, kept[i])]
    IN  IF \E i \in 1..Len(rs) : rs[i].kind = "error" THEN FirstError(rs)
        ELSE Ok([i \in 1..Len(rs) |-> rs[i].val])

-----------------------------------------------------------------------------
(* The engine: a deterministic per-line stub of `festival -b script` *)

TextLines == { <<>>, <<"a">>, <<" ", "(", "a">> }

Utterances ==
    { _double_quoted(_cleaned(l)) :
        l \in (TextLines \cup {strip(l) : l \in TextLines}) \ {<<>>} }

Answers == {"tree", "blank", "nil", "unbalanced", "exit1"}

\* The tree the stub answers for an utterance: one word of one syllable whose
\* phones are the utterance's characters, each label double-quoted.
TreeOf(utt) ==
    LET cs == replace(utt, Q, <<>>)
    IN  << Word(<< Syll([i \in 1..Len(cs) |-> Phone(<<Q, cs[i], Q>>)]) >>) >>

AnswerOf(fest, utt) == IF utt \in DOMAIN fest THEN fest[utt] ELSE "tree"

RawLine(fest, utt) ==
    CASE AnswerOf(fest, utt) = "tree" -> Sexp(TreeOf(utt))
      [] AnswerOf(fest, utt) = "blank" -> Sexp(<<>>)
      [] AnswerOf(fest, utt) = "unbalanced" -> Unbalanced
      [] OTHER -> NilLine

\* subprocess.check_output: CalledProcessError on a non-zero exit, else the
\* output, one raw line per utterance and a final newline.
_process(fest, a) ==
    LET utts == IF a = <<>> THEN <<>> ELSE split(a, NL)
    IN  IF \E i \in 1..Len(utts) : AnswerOf(fest, utts[i]) = "exit1"
        THEN Raise("CalledProcessError")
        ELSE Ok([i \in 1..Len(utts) |-> RawLine(fest, utts[i])] \o <<EmptyLine>>)

_phonemize_keeps_blank(self, fest, txt) ==
    LET b == _process(fest, _preprocess(txt))
    IN  IF b.kind = "error" THEN b ELSE _postprocess(self, b.val)

_phonemize(self, fest, txt) ==
    LET a == _preprocess(txt)
        b == _process(fest, a)
        c == IF b.kind = "error" THEN b ELSE _postprocess(self, b.val)
    IN  IF c.kind = "error" THEN c
        ELSE Ok(SelectSeq(c.val, LAMBDA line : strip(line) # <<>>))

-----------------------------------------------------------------------------
(* The chunk dispatcher and phonemize *)

_chunks(t, n) ==
    LET lines == _str2list(t)
        size == Max(1, Len(lines) \div n)
        starts == {i \in 0..(Len(lines) - 1) : i % size = 0}
    IN  [c \in 1..Cardinality(starts) |->
            _list2str(List(SubSeq(lines, (c - 1) * size + 1,
                                  Min(c * size, Len(lines)))))]

Pending == [kind |-> "pending", val |-> <<>>]

\* joblib.Parallel(n_jobs)(tasks): the workers' results in submission order,
\* or the exception a worker raised
Parallel_skips_failed(rs) ==
    LET good == SelectSeq(rs, LAMBDA r : r.kind = "ok")
    IN  Ok([i \in 1..Len(good) |-> good[i].val])

Parallel(rs) ==
    IF \E i \in 1..Len(rs) : rs[i].kind = "error" THEN FirstError(rs)
    ELSE Ok([i \in 1..Len(rs) |-> rs[i].val])

\* `return _list2str(out) if isinstance(text, str) else out`
Returned(t, entries) ==
    IF t.isStr THEN Str(_list2str(List(entries))) ELSE List(entries)

default_separator == [word |-> <<" ">>, syllable |-> <<"|">>, phone |-> <<"-">>]

Separators ==
    { default_separator,
      [word |-> <<" ">>, syllable |-> <<>>, phone |-> <<"-">>],
      [word |-> <<>>, syllable |-> <<>>, phone |-> <<>>] }

LineSeqs == UNION {[1..k -> TextLines] : k \in 0..MaxLines}

\* The texts of a call: a list of lines, or the str holding those lines
TextOf(isStr, l) == IF isStr THEN Str(join(<<NL>>, l)) ELSE List(l)

Idle ==
    /\ pc = "idle" /\ text = None /\ njobs = 0
    /\ chunks = <<>> /\ results = <<>> /\ out = None

Init ==
    /\ separator = default_separator
    /\ strip_separator = FALSE
    /\ _log \in {"None", "Logger"}
    /\ festival \in [Utterances -> Answers]
    /\ Idle
    /\ typed = <<>> /\ sane = None
    /\ tree = <<>> /\ flat = None

\* The client assigns the attributes `separator` and `strip_separator`
\* between two calls.
Configure(s, b) ==
    /\ pc = "idle"
    /\ separator' = s
    /\ strip_separator' = b
    /\ flat' = None
    /\ UNCHANGED <<_log, callVars, typed, sane, tree>>

\* phonemize(text, njobs) up to its return, its exception, or the dispatch of
\* the chunks to joblib
phonemize(t, n) ==
    /\ pc = "idle"
    /\ text' = t
    /\ njobs' = n
    /\ IF _log # "None" /\ ~t.isStr
       THEN \* line 255: text.split() on a list
            /\ out' = Raise("AttributeError")
            /\ pc' = "done"
            /\ chunks' = <<>> /\ results' = <<>>
            /\ UNCHANGED _log
       ELSE IF n = 1
       THEN /\ out' = LET r == _phonemize(Self, festival, _list2str(t))
                      IN  IF r.kind = "error" THEN r ELSE Ok(Returned(t, r.val))
            /\ pc' = "done"
            /\ chunks' = <<>> /\ results' = <<>>
            /\ UNCHANGED _log
       ELSE IF _log = "None"
       THEN \* line 263: self._log.debug on None
            /\ out' = Raise("AttributeError")
            /\ pc' = "done"
            /\ chunks' = <<>> /\ results' = <<>>
            /\ UNCHANGED _log
       ELSE /\ _log' = "None"
            /\ chunks' = _chunks(t, n)
            /\ results' = [i \in 1..Len(_chunks(t, n)) |-> Pending]
            /\ pc' = "parallel"
            /\ out' = None
    /\ UNCHANGED <<separator, strip_separator, festival, cleanVars, flatVars>>

\* One joblib worker runs self(c) on its chunk; workers finish in any order.
Worker(i) ==
    /\ pc = "parallel"
    /\ i \in 1..Len(chunks)
    /\ results[i] = Pending
    /\ results' = [results EXCEPT ![i] = _phonemize(Self, festival, chunks[i])]
    /\ UNCHANGED <<objVars, festival, pc, text, njobs, chunks, out,
                   cleanVars, flatVars>>

\* joblib returns (or raises) once every worker is done; lines 272-276
Collect ==
    /\ pc = "parallel"
    /\ \A i \in 1..Len(chunks) : results[i] # Pending
    /\ out' = LET r == Parallel(results)
              IN  IF r.kind = "error" THEN r
                  ELSE Ok(Returned(text, chain(r.val)))
    /\ pc' = "done"
    /\ UNCHANGED <<objVars, festival, text, njobs, chunks, results,
                   cleanVars, flatVars>>

\* The client takes the result (or catches the exception) of the call.
Return ==
    /\ pc = "done"
    /\ pc' = "idle" /\ text' = None /\ njobs' = 0
    /\ chunks' = <<>> /\ results' = <<>> /\ out' = None
    /\ UNCHANGED <<objVars, festival, cleanVars, flatVars>>

Next ==
    \/ \E s \in Separators, b \in BOOLEAN : Configure(s, b)
    \/ \E isStr \in BOOLEAN, l \in LineSeqs, n \in 1..MaxJobs :
          phonemize(TextOf(isStr, l), n)
    \/ \E i \in 1..MaxLines : Worker(i)
    \/ Collect
    \/ Return

Spec == Init /\ [][Next]_vars

-----------------------------------------------------------------------------
(* The sanitizer alone: _preprocess applied to every text over Alphabet *)

Alphabet == {"a", "'", Q, "(", ")", NL}

Type(c) ==
    /\ Len(typed) < MaxTyped
    /\ typed' = Append(typed, c)
    /\ sane' = None
    /\ UNCHANGED <<objVars, callVars, flatVars>>

Preprocess ==
    /\ sane = None
    /\ sane' = Ok(_preprocess(typed))
    /\ UNCHANGED <<objVars, callVars, typed, flatVars>>

NextClean ==
    \/ \E c \in Alphabet : Type(c)
    \/ Preprocess

\* One instance: the sanitizer reads neither the logger nor the engine.
InitAlone ==
    /\ Init
    /\ _log = "None"
    /\ festival = [u \in Utterances |-> "tree"]

SpecClean == InitAlone /\ [][NextClean]_vars

-----------------------------------------------------------------------------
(* The flattener alone: _postprocess_line applied to every line tree of at *)
(* most MaxNodes nodes, emitted left to right, under every configuration   *)

Labels == { <<Q, "a", Q>>, <<"b">>, <<Q, Q>> }

RECURSIVE Sum(_)
Sum(ns) == IF ns = <<>> THEN 0 ELSE Head(ns) + Sum(Tail(ns))

\* words + syllables + phones of a line tree
Nodes(line) ==
    Sum([w \in 1..Len(line) |->
            1 + Sum([s \in 1..Len(Tail(line[w])) |-> Len(Tail(line[w])[s])])])

\* The line of 2 words x 2 syllables x 2 phones labelled a..h
ExampleSyll(x, y) == Syll(<<Phone(<<Q, x, Q>>), Phone(<<Q, y, Q>>)>>)
ExampleLine ==
    << Word(<<ExampleSyll("a", "b"), ExampleSyll("c", "d")>>),
       Word(<<ExampleSyll("e", "f"), ExampleSyll("g", "h")>>) >>

EmitWord ==
    /\ Nodes(tree) < MaxNodes
    /\ tree' = Append(tree, Word(<<>>))
    /\ flat' = None
    /\ UNCHANGED <<objVars, callVars, cleanVars>>

EmitSyll ==
    /\ Nodes(tree) < MaxNodes
    /\ tree # <<>>
    /\ tree' = [tree EXCEPT ![Len(tree)] = Append(@, Syll(<<>>))]
    /\ flat' = None
    /\ UNCHANGED <<objVars, callVars, cleanVars>>

EmitPhone(label) ==
    /\ Nodes(tree) < MaxNodes
    /\ tree # <<>>
    /\ Len(tree[Len(tree)]) >= 2
    /\ tree' = [tree EXCEPT ![Len(tree)] =
                   [@ EXCEPT ![Len(@)] = Append(@, Phone(label))]]
    /\ flat' = None
    /\ UNCHANGED <<objVars, callVars, cleanVars>>

EmitExample ==
    /\ tree = <<>>
    /\ tree' = ExampleLine
    /\ flat' = None
    /\ UNCHANGED <<objVars, callVars, cleanVars>>

PostprocessLine ==
    /\ flat = None
    /\ flat' = _postprocess_line(Self, Sexp(tree))
    /\ UNCHANGED <<objVars, callVars, cleanVars, tree>>

NextFlat ==
    \/ \E s \in Separators, b \in BOOLEAN : Configure(s, b)
    \/ EmitWord
    \/ EmitSyll
    \/ \E l \in Labels : EmitPhone(l)
    \/ EmitExample
    \/ PostprocessLine

SpecFlat == InitAlone /\ [][NextFlat]_vars

-----------------------------------------------------------------------------
(* Properties of the sanitizer (SpecClean) *)

Range(f) == {f[i] : i \in DOMAIN f}

NonEmpty(lines) == SelectSeq(lines, LAMBDA l : l # <<>>)

\* A line without its parentheses, each double-quote turned into an apostrophe
Kept(line) ==
    LET cs == SelectSeq(line, LAMBDA c : c \notin {"(", ")"})
    IN  [i \in 1..Len(cs) |-> IF cs[i] = Q THEN "'" ELSE cs[i]]

-----------------------------------------------------------------------------
(* Properties of the flattener (SpecFlat) *)

\* every element immediately followed by the separator
Followed(elems, sep) == chain([i \in 1..Len(elems) |-> elems[i] \o sep])

\* every element but the last immediately followed by the separator
FollowedButLast(elems, sep) ==
    chain([i \in 1..Len(elems) |->
              IF i < Len(elems) THEN elems[i] \o sep ELSE elems[i]])

\* An element-less level flattens to the bare separator when it is kept.
Glue(stripped, elems, sep) ==
    IF stripped THEN FollowedButLast(elems, sep)
    ELSE IF elems = <<>> THEN sep ELSE Followed(elems, sep)

SpokenLabels(syll) ==
    NonEmpty([i \in 1..Len(Tail(syll)) |->
                 SelectSeq(Tail(syll)[i][1][1], LAMBDA c : c # Q)])

RefSyll(self, syll) ==
    Glue(self.strip_separator, SpokenLabels(syll), self.separator.phone)

RefWord(self, word) ==
    Glue(self.strip_separator,
         [i \in 1..Len(Tail(word)) |-> RefSyll(self, Tail(word)[i])],
         self.separator.syllable)

RefLine(self, line) ==
    Glue(self.strip_separator,
         NonEmpty([i \in 1..Len(line) |-> RefWord(self, line[i])]),
         self.separator.word)

ExampleFlat ==
    << "a", "-", "b", "-", "|", "c", "-", "d", "-", "|", " ",
       "e", "-", "f", "-", "|", "g", "-", "h", "-", "|", " " >>

\* C6: with strip_separator = False every phone label of the flattened line
\* is immediately followed by the phone separator, every syllable by the
\* syllable separator and every word by the word separator, the last ones
\* included (the line of 2 x 2 x 2 phones a..h flattens to
\* 'a-b-|c-d-| e-f-|g-h-| '); with strip_separator = True no separator
\* follows the last element at any level.
C6_TrailingSeparatorRule ==
    flat.kind = "ok" =>
        /\ flat.val = RefLine(Self, tree)
        /\ (/\ tree = ExampleLine
            /\ separator = default_separator
            /\ ~strip_separator) => flat.val = ExampleFlat

C6_Witness ==
    /\ tree = ExampleLine
    /\ ~strip_separator
    /\ flat = Ok(ExampleFlat)

\* The strip_separator = False flattening with the one separator appended at
\* each level deleted: the pieces it is made of, without their last separator
DropSuffix(s, sep) == SubSeq(s, 1, Len(s) - Len(sep))

TrailingDeleted(sep, line) ==
    LET self == [separator |-> sep, strip_separator |-> FALSE]
        DelSyll(syll) == DropSuffix(_postprocess_syll(self, syll), sep.phone)
        DelWord(word) ==
            join(sep.syllable,
                 [i \in 1..Len(Tail(word)) |-> DelSyll(Tail(word)[i])])
        kept == SelectSeq(line, LAMBDA w : _postprocess_word(self, w) # <<>>)
    IN  join(sep.word, [i \in 1..Len(kept) |-> DelWord(kept[i])])

\* C7: for every line tree and separator triple, the strip_separator = False
\* flattening with the trailing separator of each level deleted is exactly
\* the strip_separator = True flattening of the same tree.
C7_IdempotentRejoin ==
    (flat.kind = "ok" /\ strip_separator) =>
        flat.val = TrailingDeleted(separator, tree)

Pruned(line) ==
    [w \in 1..Len(line) |->
        Word([s \in 1..Len(Tail(line[w])) |->
            Syll(SelectSeq(Tail(Tail(line[w])[s]),
                           LAMBDA ph : \E k \in 1..Len(ph[1][1]) :
                                          ph[1][1][k] # Q))])]

Sylls(line) == UNION {Range(Tail(line[w])) : w \in 1..Len(line)}

\* C9: a phone whose label is empty once its double-quotes are stripped is
\* dropped: the flattening equals that of the same tree without those phone
\* entries, and each flattened syllable holds as many phone separators as
\* its non-empty labels alone determine.
C9_EmptyLabelsDropped ==
    flat.kind = "ok" =>
        /\ flat = _postprocess_line(Self, Sexp(Pruned(tree)))
        /\ \A syll \in Sylls(tree) :
             LET labels == SpokenLabels(syll)
                 k == Len(labels)
                 nsep == IF strip_separator THEN Max(k, 1) - 1 ELSE Max(k, 1)
             IN  Len(_postprocess_syll(Self, syll)) =
                     Sum([i \in 1..k |-> Len(labels[i])])
                     + nsep * Len(separator.phone)

C9_Witness ==
    /\ tree = << Word(<< Syll(<<Phone(<<Q, Q>>), Phone(<<Q, "a", Q>>),
                              Phone(<<Q, Q>>)>>) >>) >>
    /\ separator = default_separator
    /\ flat = Ok(<<"a", "-", "|", " ">>)

-----------------------------------------------------------------------------
(* Properties of phonemize (Spec) *)

\* The text of a call as a sequence of lines
InputLines(t) == IF t.isStr THEN split(t.val, NL) ELSE t.val

\* The entries of a returned value: a str result is the newline-join of them
EntriesOf(v) ==
    IF ~v.isStr THEN v.val
    ELSE IF v.val = <<>> THEN <<>> ELSE split(v.val, NL)

Returns == pc = "done" /\ out.kind = "ok"

\* What phonemize(t, 1) gives on this instance
SinglePass(t) ==
    IF _log # "None" /\ ~t.isStr THEN Raise("AttributeError")
    ELSE LET r == _phonemize(Self, festival, _list2str(t))
         IN  IF r.kind = "error" THEN r ELSE Ok(Returned(t, r.val))

\* C1: phonemize(text, N) gives, for every text and every N >= 1, what
\* phonemize(text, 1) gives, whatever the order the workers finish in.
C1_ChunkInvariance ==
    pc = "done" => out = SinglePass(text)

\* C2: _chunks(text, n) returns n chunks of contiguous lines whose
\* concatenation is the text: the first n-1 hold size = max(1, L div n)
\* lines each and the last one holds every remaining line (stated here for
\* the texts of at least n lines).
C2_ChunksShape ==
    (pc = "parallel" /\ Len(_str2list(text)) >= njobs) =>
        LET lines == _str2list(text)
            L == Len(lines)
            size == Max(1, L \div njobs)
            piece(c) == split(chunks[c], NL)
        IN  /\ Len(chunks) = njobs
            /\ \A c \in 1..(Len(chunks) - 1) : Len(piece(c)) = size
            /\ Len(piece(Len(chunks))) = L - (njobs - 1) * size
            /\ chain([c \in 1..Len(chunks) |-> piece(c)]) = lines

\* C4 as stated: one entry per non-empty input line, for every engine answer.
C4_OneEntryPerNonEmptyLine ==
    Returns => Len(EntriesOf(out.val)) = Len(NonEmpty(InputLines(text)))

\* The lines of the text as the call splits it: a parallel run on a str
\* splits text.strip()
SplitLines == IF njobs = 1 THEN InputLines(text) ELSE _str2list(text)

\* The entries one line gives rise to
LineEntries(l) ==
    LET u == _double_quoted(_cleaned(l))
        f == _postprocess_line(Self, RawLine(festival, u))
    IN  IF l = <<>> \/ AnswerOf(festival, u) \notin {"tree", "blank"} THEN <<>>
        ELSE IF strip(f.val) = <<>> THEN <<>> ELSE <<f.val>>

\* C4, amended: the output has at most one entry per non-empty input line, in
\* the original line order: one for each non-empty line that the engine
\* answers with a tree whose flattening is not blank, none for a line it
\* answers with the sentinel marker or a blank flattening, and none for an
\* empty line.
C4_EntriesPerLine ==
    Returns =>
        /\ EntriesOf(out.val) =
               chain([i \in 1..Len(SplitLines) |-> LineEntries(SplitLines[i])])
        /\ Len(EntriesOf(out.val)) <= Len(NonEmpty(InputLines(text)))

C4_Witness ==
    /\ Returns
    /\ njobs = 1
    /\ <<>> \in Range(InputLines(text))
    /\ \E l \in Range(InputLines(text)) :
          l # <<>> /\ AnswerOf(festival, _double_quoted(_cleaned(l))) = "nil"
    /\ Len(EntriesOf(out.val)) = 1

\* The lines handed to the engine, by the single pass or by the workers
Submitted ==
    IF njobs = 1 THEN split(_list2str(text), NL)
    ELSE chain([c \in 1..Len(chunks) |-> split(chunks[c], NL)])

Fails(l) ==
    /\ l # <<>>
    /\ AnswerOf(festival, _double_quoted(_cleaned(l))) \in {"exit1", "unbalanced"}

\* C5: if the engine exits non-zero or a raw output line fails to parse, in
\* the single pass or in any one chunk of a parallel run, the call ends in
\* an error and returns no entries: no bad line or chunk is skipped.
C5_FailFast ==
    pc = "done" =>
        /\ (\E l \in Range(Submitted) : Fails(l)) => out.kind = "error"
        /\ (\E c \in 1..Len(results) : results[c].kind = "error")
               => out.kind = "error"

C5_Witness ==
    /\ pc = "done"
    /\ out.kind = "error"
    /\ \E c, d \in 1..Len(results) :
          /\ results[c].kind = "error"
          /\ results[d].kind = "ok" /\ results[d].val # <<>>

\* The entry lists _phonemize has returned: to the workers and to a single pass
PhonemizeReturns ==
    {results[c].val : c \in {d \in 1..Len(results) : results[d].kind = "ok"}}
    \cup (IF Returns /\ njobs = 1 THEN {EntriesOf(out.val)} ELSE {})

\* C8 as stated: every entry returned by _phonemize is trimmed of
\* surrounding whitespace.
C8_EntriesTrimmed ==
    \A es \in PhonemizeReturns : \A k \in 1..Len(es) : strip(es[k]) = es[k]

Flattenings ==
    {_postprocess_line(Self, RawLine(festival, u)).val :
        u \in {v \in Utterances : AnswerOf(festival, v) \in {"tree", "blank"}}}

\* C8, amended: every entry returned by _phonemize is a flattened line as
\* _postprocess_line gives it, not trimmed, whose trimmed form is not empty;
\* a line whose trimmed flattening is empty contributes no entry.
C8_EntriesNotBlank ==
    \A es \in PhonemizeReturns : \A k \in 1..Len(es) :
        /\ strip(es[k]) # <<>>
        /\ es[k] \in Flattenings

C8_Witness ==
    /\ Returns
    /\ njobs = 1
    /\ text = List(<< <<"a">>, <<" ", "(", "a">> >>)
    /\ festival[<<Q, "a", Q>>] = "tree"
    /\ festival[<<Q, " ", "a", Q>>] = "blank"
    /\ out.val = List(<< <<"a", "-", "|", " ">> >>)

\* C10: no step of phonemize changes the configuration of the Phonemizer
\* (separator, strip_separator, logger), so that a later call's outcome
\* depends on its own text and njobs alone.
C10_ConfigurationUnchanged ==
    [][pc' # pc => objVars' = objVars]_vars

=============================================================================
